---- MODULE Spec2Model ----
(***************************************************************************)
(* Model of the multi-agent real estate assistant (app/main.py,            *)
(* app/graph_builder.py, app/graph_nodes.py, app/graph_state.py,           *)
(* app/schemas.py).                                                        *)
(*                                                                         *)
(* A text (Python str) is a sequence of tokens.  The user's query is a     *)
(* sequence of one-character tokens, so that lower() and the substring     *)
(* test `keyword in text` are computed as the code computes them.  Fixed   *)
(* messages of the program are one-token texts, an f-string is the         *)
(* concatenation of its pieces.                                            *)
(***************************************************************************)
EXTENDS Integers, Sequences, FiniteSets, TLC

\* ---------------------------------------------------------------------
\* Bounds of the model
\* ---------------------------------------------------------------------
MaxReq == 2
MaxAttach == 2

Requests == 1..MaxReq
\* session ids, in the order the clients take them into use
SessionSeq == <<"s1", "s2">>
Sessions == { SessionSeq[i] : i \in 1..Len(SessionSeq) }

\* ---------------------------------------------------------------------
\* Python values
\* ---------------------------------------------------------------------
\* None, where a str is expected (Optional[str])
None == <<"<None>">>
\* the empty str
EmptyStr == <<>>
\* Python truthiness of an Optional[str]
Truthy(x) == x # None /\ x # EmptyStr
\* agent_decision: Optional[str], never compared with a text
NoDecision == "None"

UpperSeq == <<"A","B","C","D","E","F","G","H","I","J","K","L","M",
              "N","O","P","Q","R","S","T","U","V","W","X","Y","Z">>
LowerSeq == <<"a","b","c","d","e","f","g","h","i","j","k","l","m",
              "n","o","p","q","r","s","t","u","v","w","x","y","z">>

LowerChar(c) ==
    IF \E i \in 1..Len(UpperSeq) : UpperSeq[i] = c
    THEN LowerSeq[CHOOSE i \in 1..Len(UpperSeq) : UpperSeq[i] = c]
    ELSE c

\* str.lower()
Lower(t) == [i \in 1..Len(t) |-> LowerChar(t[i])]

\* `kw in t` on str: substring test
Contains(kw, t) ==
    \E i \in 1..(Len(t) - Len(kw) + 1) : SubSeq(t, i, i + Len(kw) - 1) = kw

\* ---------------------------------------------------------------------
\* Messages (langchain_core.messages) and GraphState
\* ---------------------------------------------------------------------
\* content parts of a HumanMessage built by chat_endpoint
TextPart(t) == [type |-> "text", text |-> t, image_url |-> None]
ImagePart(url) == [type |-> "image_url", text |-> None, image_url |-> url]

\* A message: content is either a str (field str) or a list of parts (field
\* list); id is the id the message carries (add_messages gives every message
\* without one a fresh id), here the request that produced it.
HumanMessage(parts, r) ==
    [type |-> "human", id |-> r, isstr |-> FALSE, str |-> None, list |-> parts]
AIMessage(text, r) ==
    [type |-> "ai", id |-> r, isstr |-> TRUE, str |-> text, list |-> <<>>]

\* add_messages, the reducer of GraphState.messages: messages whose id is
\* new are appended in order (ids of this model are always new: one human and
\* one ai message per request).
add_messages(left, right) == left \o right

\* GraphState
GraphState(msgs, dec, err) ==
    [messages |-> msgs, agent_decision |-> dec, error |-> err]

\* the state of a thread_id the MemorySaver has no checkpoint for
EmptyState == GraphState(<<>>, NoDecision, None)

\* ---------------------------------------------------------------------
\* graph_nodes.py helpers
\* ---------------------------------------------------------------------
FirstTextIndex(parts) ==
    CHOOSE i \in 1..Len(parts) :
        /\ parts[i].type = "text"
        /\ \A j \in 1..(i - 1) : parts[j].type # "text"

get_text_from_message(m) ==
    IF m.isstr THEN m.str
    ELSE IF \E i \in 1..Len(m.list) : m.list[i].type = "text"
         THEN m.list[FirstTextIndex(m.list)].text
         ELSE EmptyStr

has_images_in_message(m) ==
    /\ ~m.isstr
    /\ \E i \in 1..Len(m.list) : m.list[i].type = "image_url"

\* ---------------------------------------------------------------------
\* chat_endpoint: the content of the user's message
\* ---------------------------------------------------------------------
\* An uploaded file: content_type (None or a tokenised MIME type), what
\* read() does ("ok", "error") and the bytes it returns.
UploadFile(ct, rd, bytes) == [content_type |-> ct, read |-> rd, bytes |-> bytes]

\* content_type.startswith("image/")
StartsWithImage(ct) == Len(ct) >= 2 /\ ct[1] = "image" /\ ct[2] = "/"

\* the checks of the loop without the one for an empty payload
ValidImage_accepts_empty(image) ==
    /\ Truthy(image.content_type)
    /\ StartsWithImage(image.content_type)
    /\ image.read = "ok"

\* an upload that passes the checks of the loop and yields an image part
ValidImage(image) ==
    /\ Truthy(image.content_type)
    /\ StartsWithImage(image.content_type)
    /\ image.read = "ok"
    /\ image.bytes # EmptyStr

\* base64.b64encode(image_bytes).decode('utf-8')
B64Token(b) == IF b = "PNGDATA" THEN "UE5HREFUQQ==" ELSE "UERGREFUQQ=="
b64encode(bytes) == [i \in 1..Len(bytes) |-> B64Token(bytes[i])]

ImageUrl(image) ==
    <<"data:">> \o image.content_type \o <<";base64,">> \o b64encode(image.bytes)

RECURSIVE ImageParts(_)
ImageParts(images) ==
    IF images = <<>> THEN <<>>
    ELSE (IF ValidImage(Head(images))
          THEN <<ImagePart(ImageUrl(Head(images)))>>
          ELSE <<>>) \o ImageParts(Tail(images))

\* input_message_content
InputMessageContent(query, images) == <<TextPart(query)>> \o ImageParts(images)

\* ---------------------------------------------------------------------
\* Fixed texts of the program
\* ---------------------------------------------------------------------
faq_keywords ==
    << <<"l","e","a","s","e">>, <<"r","e","n","t">>,
       <<"l","a","n","d","l","o","r","d">>, <<"t","e","n","a","n","t">>,
       <<"d","e","p","o","s","i","t">>,
       <<"a","g","r","e","e","m","e","n","t">>,
       <<"e","v","i","c","t","i","o","n">>, <<"n","o","t","i","c","e">>,
       <<"l","a","w">>, <<"r","i","g","h","t","s">> >>

NoUserMessageText == <<"Something went wrong, no user message found.">>
NoMessagesError == <<"Routing failed: No messages in state.">>
UploadImageText == <<"It looks like you might need help with a visual issue, but you didn't provide an image in your last message. Could you upload one? Or is your question about something else?">>
HelpFurtherText == <<"How can I help you further? Please ask a question about a property issue (with an image if needed) or a tenancy topic.">>
RoutingApologyText == <<"Sorry, I encountered an issue routing your request. Could you please rephrase or specify if it's about a visual issue (with image) or a tenancy question?">>
Agent1ApologyText == <<"Sorry, I encountered an error analyzing the image(s).">>
Agent2ApologyText == <<"Sorry, I encountered an error answering your question.">>
UnableToRespondText == <<"I received your message, but I'm unable to provide a further response at this time.">>
FailedToGenerateText == <<"Chatbot failed to generate a valid response.">>
NonStandardResponseText == <<"Received a non-standard response.">>

\* ---------------------------------------------------------------------
\* route_request
\* ---------------------------------------------------------------------
\* What a node returns: the keys of the returned dict.  A key that is absent
\* leaves its channel alone (has_decision, has_error).
Update(has_dec, dec, msgs, has_err, err) ==
    [has_decision |-> has_dec, agent_decision |-> dec, messages |-> msgs,
     has_error |-> has_err, error |-> err]

\* any(keyword in last_query_text.lower() for keyword in faq_keywords)
AnyFaqKeyword(last_query_text) ==
    \E k \in 1..Len(faq_keywords) : Contains(faq_keywords[k], Lower(last_query_text))

\* OverrideLogic without the branch for a visual decision without images
OverrideLogic_no_image_check(decision, clarification, has_images_in_last_message, last_query_text) ==
    IF has_images_in_last_message /\ decision = "agent2"
    THEN IF ~AnyFaqKeyword(last_query_text)
         THEN [final_decision |-> "agent1", clarification |-> None]
         ELSE [final_decision |-> decision, clarification |-> clarification]
    ELSE IF decision = "clarify" /\ ~Truthy(clarification)
    THEN [final_decision |-> decision, clarification |-> HelpFurtherText]
    ELSE [final_decision |-> decision, clarification |-> clarification]

\* OverrideLogic that trusts the classifier's tenancy decision with images
OverrideLogic_no_keyword_override(decision, clarification, has_images_in_last_message, last_query_text) ==
    IF ~has_images_in_last_message /\ decision = "agent1"
    THEN [final_decision |-> "clarify",
          clarification |-> IF Truthy(clarification) THEN clarification
                            ELSE UploadImageText]
    ELSE IF decision = "clarify" /\ ~Truthy(clarification)
    THEN [final_decision |-> decision, clarification |-> HelpFurtherText]
    ELSE [final_decision |-> decision, clarification |-> clarification]

\* OverrideLogic that sends every tenancy decision with images to the
\* issue detector, whatever the query says
OverrideLogic_images_always_visual(decision, clarification, has_images_in_last_message, last_query_text) ==
    IF has_images_in_last_message /\ decision = "agent2"
    THEN [final_decision |-> "agent1", clarification |-> None]
    ELSE IF ~has_images_in_last_message /\ decision = "agent1"
    THEN [final_decision |-> "clarify",
          clarification |-> IF Truthy(clarification) THEN clarification
                            ELSE UploadImageText]
    ELSE IF decision = "clarify" /\ ~Truthy(clarification)
    THEN [final_decision |-> decision, clarification |-> HelpFurtherText]
    ELSE [final_decision |-> decision, clarification |-> clarification]

\* OverrideLogic with the two default texts exchanged
OverrideLogic_swapped_defaults(decision, clarification, has_images_in_last_message, last_query_text) ==
    IF has_images_in_last_message /\ decision = "agent2"
    THEN IF ~AnyFaqKeyword(last_query_text)
         THEN [final_decision |-> "agent1", clarification |-> None]
         ELSE [final_decision |-> decision, clarification |-> clarification]
    ELSE IF ~has_images_in_last_message /\ decision = "agent1"
    THEN [final_decision |-> "clarify",
          clarification |-> IF Truthy(clarification) THEN clarification
                            ELSE HelpFurtherText]
    ELSE IF decision = "clarify" /\ ~Truthy(clarification)
    THEN [final_decision |-> decision, clarification |-> UploadImageText]
    ELSE [final_decision |-> decision, clarification |-> clarification]

\* OverrideLogic without the default text of a clarify decision
OverrideLogic_no_default(decision, clarification, has_images_in_last_message, last_query_text) ==
    IF has_images_in_last_message /\ decision = "agent2"
    THEN IF ~AnyFaqKeyword(last_query_text)
         THEN [final_decision |-> "agent1", clarification |-> None]
         ELSE [final_decision |-> decision, clarification |-> clarification]
    ELSE IF ~has_images_in_last_message /\ decision = "agent1"
    THEN [final_decision |-> "clarify",
          clarification |-> IF Truthy(clarification) THEN clarification
                            ELSE UploadImageText]
    ELSE [final_decision |-> decision, clarification |-> clarification]

\* The override logic: from the classifier's decision and clarification to
\* final_decision and clarification.
OverrideLogic(decision, clarification, has_images_in_last_message, last_query_text) ==
    IF has_images_in_last_message /\ decision = "agent2"
    THEN IF ~AnyFaqKeyword(last_query_text)
         THEN [final_decision |-> "agent1", clarification |-> None]
         ELSE [final_decision |-> decision, clarification |-> clarification]
    ELSE IF ~has_images_in_last_message /\ decision = "agent1"
    THEN [final_decision |-> "clarify",
          clarification |-> IF Truthy(clarification) THEN clarification
                            ELSE UploadImageText]
    ELSE IF decision = "clarify" /\ ~Truthy(clarification)
    THEN [final_decision |-> decision, clarification |-> HelpFurtherText]
    ELSE [final_decision |-> decision, clarification |-> clarification]

\* RouterOutput: decision is required and one of three literals
RouterOutputLiterals == {"agent1", "agent2", "clarify"}
ValidationErrorText == <<"1 validation error for RouterOutput">>

\* the structured output taken as it comes, without validation
with_structured_output_unvalidated(llm) == llm

\* router_llm.with_structured_output(RouterOutput): what the model answered
\* is validated against RouterOutput; an answer that does not fit raises
with_structured_output(llm) ==
    IF llm.ok /\ llm.decision \notin RouterOutputLiterals
    THEN [ok |-> FALSE, decision |-> NoDecision, clarification_message |-> None,
          content |-> None, cause |-> ValidationErrorText]
    ELSE llm

\* route_request whose except branch hands the request to the FAQ handler
route_request_failure_to_faq(state, raw, r) ==
    LET messages == state.messages
        llm == with_structured_output(raw)
    IN
    IF messages = <<>>
    THEN Update(TRUE, "clarify", <<AIMessage(NoUserMessageText, r)>>,
                TRUE, NoMessagesError)
    ELSE
      LET last_message == messages[Len(messages)]
          last_query_text == get_text_from_message(last_message)
          has_images_in_last_message == has_images_in_message(last_message)
      IN
      IF ~llm.ok
      THEN Update(TRUE, "agent2", <<>>, TRUE, <<"Routing failed: ">> \o llm.cause)
      ELSE
        LET o == OverrideLogic(llm.decision, llm.clarification_message,
                               has_images_in_last_message, last_query_text)
        IN
        IF o.final_decision = "clarify" /\ Truthy(o.clarification)
        THEN Update(TRUE, o.final_decision, <<AIMessage(o.clarification, r)>>,
                    FALSE, None)
        ELSE Update(TRUE, o.final_decision, <<>>, FALSE, None)

\* route_request that answers an empty conversation without a message
route_request_empty_without_turn(state, raw, r) ==
    LET messages == state.messages
        llm == with_structured_output(raw)
    IN
    IF messages = <<>>
    THEN Update(TRUE, "clarify", <<>>, TRUE, NoMessagesError)
    ELSE
      LET last_message == messages[Len(messages)]
          last_query_text == get_text_from_message(last_message)
          has_images_in_last_message == has_images_in_message(last_message)
      IN
      IF ~llm.ok
      THEN Update(TRUE, "clarify", <<AIMessage(RoutingApologyText, r)>>,
                  TRUE, <<"Routing failed: ">> \o llm.cause)
      ELSE
        LET o == OverrideLogic(llm.decision, llm.clarification_message,
                               has_images_in_last_message, last_query_text)
        IN
        IF o.final_decision = "clarify" /\ Truthy(o.clarification)
        THEN Update(TRUE, o.final_decision, <<AIMessage(o.clarification, r)>>,
                    FALSE, None)
        ELSE Update(TRUE, o.final_decision, <<>>, FALSE, None)

\* route_request that adds the clarification text whatever the final decision
route_request_always_appends(state, raw, r) ==
    LET messages == state.messages
        llm == with_structured_output(raw)
    IN
    IF messages = <<>>
    THEN Update(TRUE, "clarify", <<AIMessage(NoUserMessageText, r)>>,
                TRUE, NoMessagesError)
    ELSE
      LET last_message == messages[Len(messages)]
          last_query_text == get_text_from_message(last_message)
          has_images_in_last_message == has_images_in_message(last_message)
      IN
      IF ~llm.ok
      THEN Update(TRUE, "clarify", <<AIMessage(RoutingApologyText, r)>>,
                  TRUE, <<"Routing failed: ">> \o llm.cause)
      ELSE
        LET o == OverrideLogic(llm.decision, llm.clarification_message,
                               has_images_in_last_message, last_query_text)
        IN
        IF Truthy(o.clarification)
        THEN Update(TRUE, o.final_decision, <<AIMessage(o.clarification, r)>>,
                    FALSE, None)
        ELSE Update(TRUE, o.final_decision, <<>>, FALSE, None)

\* raw: the outcome of the classifier call: ok = FALSE when the call raised,
\* with cause the text of the exception; llm: the outcome of
\* structured_llm.ainvoke.  r is the id of the AIMessage created.
route_request(state, raw, r) ==
    LET messages == state.messages
        llm == with_structured_output(raw)
    IN
    IF messages = <<>>
    THEN Update(TRUE, "clarify", <<AIMessage(NoUserMessageText, r)>>,
                TRUE, NoMessagesError)
    ELSE
      LET last_message == messages[Len(messages)]
          last_query_text == get_text_from_message(last_message)
          has_images_in_last_message == has_images_in_message(last_message)
      IN
      IF ~llm.ok
      THEN Update(TRUE, "clarify", <<AIMessage(RoutingApologyText, r)>>,
                  TRUE, <<"Routing failed: ">> \o llm.cause)
      ELSE
        LET o == OverrideLogic(llm.decision, llm.clarification_message,
                               has_images_in_last_message, last_query_text)
        IN
        IF o.final_decision = "clarify" /\ Truthy(o.clarification)
        THEN Update(TRUE, o.final_decision, <<AIMessage(o.clarification, r)>>,
                    FALSE, None)
        ELSE Update(TRUE, o.final_decision, <<>>, FALSE, None)

\* ---------------------------------------------------------------------
\* execute_agent1, execute_agent2
\* ---------------------------------------------------------------------
\* llm: the outcome of agentN_llm.ainvoke: ok with the content of the
\* AIMessage, or not ok with the text of the exception.
\* execute_agent1 whose except branch records the error without a message
execute_agent1_no_apology(state, llm, r) ==
    IF llm.ok
    THEN Update(FALSE, NoDecision, <<AIMessage(llm.content, r)>>, FALSE, None)
    ELSE Update(FALSE, NoDecision, <<>>, TRUE, <<"Agent 1 failed: ">> \o llm.cause)

execute_agent1(state, llm, r) ==
    IF llm.ok
    THEN Update(FALSE, NoDecision, <<AIMessage(llm.content, r)>>, FALSE, None)
    ELSE Update(FALSE, NoDecision, <<AIMessage(Agent1ApologyText, r)>>,
                TRUE, <<"Agent 1 failed: ">> \o llm.cause)

\* execute_agent2 that keeps the answer of the model to itself
execute_agent2_no_reply(state, llm, r) ==
    IF llm.ok
    THEN Update(FALSE, NoDecision, <<>>, FALSE, None)
    ELSE Update(FALSE, NoDecision, <<AIMessage(Agent2ApologyText, r)>>,
                TRUE, <<"Agent 2 failed: ">> \o llm.cause)

execute_agent2(state, llm, r) ==
    IF llm.ok
    THEN Update(FALSE, NoDecision, <<AIMessage(llm.content, r)>>, FALSE, None)
    ELSE Update(FALSE, NoDecision, <<AIMessage(Agent2ApologyText, r)>>,
                TRUE, <<"Agent 2 failed: ">> \o llm.cause)

\* ---------------------------------------------------------------------
\* graph_builder.py
\* ---------------------------------------------------------------------
END == "__end__"

\* decide_next_node that sends the tenancy decision to the issue detector
decide_next_node_swapped(state) ==
    LET decision == state.agent_decision IN
    IF decision = "agent1" THEN "issue_detector"
    ELSE IF decision = "agent2" THEN "issue_detector"
    ELSE IF decision = "clarify" THEN "clarify"
    ELSE END

\* decide_next_node whose fallback is the FAQ agent
decide_next_node_fallback_faq(state) ==
    LET decision == state.agent_decision IN
    IF decision = "agent1" THEN "issue_detector"
    ELSE IF decision = "agent2" THEN "faq_agent"
    ELSE IF decision = "clarify" THEN "clarify"
    ELSE "faq_agent"

decide_next_node(state) ==
    LET decision == state.agent_decision IN
    IF decision = "agent1" THEN "issue_detector"
    ELSE IF decision = "agent2" THEN "faq_agent"
    ELSE IF decision = "clarify" THEN "clarify"
    ELSE END

\* the path map of add_conditional_edges("router", decide_next_node, {...})
ConditionalEdge(key) ==
    IF key = "issue_detector" THEN "issue_detector"
    ELSE IF key = "faq_agent" THEN "faq_agent"
    ELSE END

\* the issue detector followed by the FAQ agent
AgentEdge_chained(node) ==
    IF node = "issue_detector" THEN "faq_agent" ELSE END

\* workflow.add_edge("issue_detector", END); workflow.add_edge("faq_agent", END)
AgentEdge(node) == END

\* The channels of the graph after a node's update: messages through the
\* add_messages reducer, agent_decision and error overwritten when returned.
ApplyUpdate(state, u) ==
    GraphState(add_messages(state.messages, u.messages),
               IF u.has_decision THEN u.agent_decision ELSE state.agent_decision,
               IF u.has_error THEN u.error ELSE state.error)

\* ---------------------------------------------------------------------
\* chat_endpoint: the response built from final_state
\* ---------------------------------------------------------------------
IsTextPart(part) == part.type = "text"

\* the response taken from the first message instead of the last
ResponseText_first_message(final_state) ==
    LET error_message == final_state.error
        all_messages == final_state.messages
        has_last == all_messages # <<>>
        last_message == all_messages[1]
        response_text1 == IF Truthy(error_message)
                          THEN <<"An error occurred: ">> \o error_message
                          ELSE EmptyStr
    IN
    IF response_text1 = EmptyStr /\ has_last /\ last_message.type = "ai"
    THEN last_message.str
    ELSE IF response_text1 = EmptyStr
    THEN IF has_last /\ last_message.type = "human"
         THEN UnableToRespondText
         ELSE FailedToGenerateText
    ELSE response_text1

\* "\n".join(text_parts)
RECURSIVE JoinLines(_)
JoinLines(text_parts) ==
    IF Len(text_parts) = 1 THEN text_parts[1].text
    ELSE text_parts[1].text \o <<"\n">> \o JoinLines(Tail(text_parts))

ResponseText(final_state) ==
    LET error_message == final_state.error
        all_messages == final_state.messages
        has_last == all_messages # <<>>
        last_message == all_messages[Len(all_messages)]
        response_text1 == IF Truthy(error_message)
                          THEN <<"An error occurred: ">> \o error_message
                          ELSE EmptyStr
    IN
    IF response_text1 = EmptyStr /\ has_last /\ last_message.type = "ai"
    THEN IF last_message.isstr THEN last_message.str
         ELSE IF SelectSeq(last_message.list, IsTextPart) # <<>>
         THEN JoinLines(SelectSeq(last_message.list, IsTextPart))
         ELSE NonStandardResponseText
    ELSE IF response_text1 = EmptyStr
    THEN IF has_last /\ last_message.type = "human"
         THEN UnableToRespondText
         ELSE FailedToGenerateText
    ELSE response_text1

ChatResponse(text, sid) == [status |-> "200", response |-> text, session_id |-> sid]
NoResponse == [status |-> "pending", response |-> EmptyStr, session_id |-> "-"]

\* one thread_id for every session
ThreadId_shared(session_id) == "s1"

\* config = {"configurable": {"thread_id": session_id}}: the key of the
\* MemorySaver the graph invocation of a request reads and writes
ThreadId(session_id) == session_id

\* clear_session that deletes the checkpoints of the session
clear_session_deleting(memory, sid) ==
    IF sid # ""
    THEN [memory |-> [memory EXCEPT ![sid] = EmptyState],
          response |->
            [message |-> <<"Session ", sid, " context clear signaled. Please use a new session_id for the next chat message to start fresh.">>,
             session_id |-> sid]]
    ELSE [memory |-> memory,
          response |->
            [message |-> <<"Context clear signaled. Please use a new session_id for the next chat message to start fresh.">>,
             session_id |-> "None"]]

\* clear_session: the ClearResponse returned and the memory it leaves, given
\* the memory it found; sid = "" is a call without session_id
clear_session(memory, sid) ==
    IF sid # ""
    THEN [memory |-> memory,
          response |->
            [message |-> <<"Session ", sid, " context clear signaled. Please use a new session_id for the next chat message to start fresh.">>,
             session_id |-> sid]]
    ELSE [memory |-> memory,
          response |->
            [message |-> <<"Context clear signaled. Please use a new session_id for the next chat message to start fresh.">>,
             session_id |-> "None"]]

\* ---------------------------------------------------------------------
\* Inputs of the requests and outcomes of the external calls
\* ---------------------------------------------------------------------
MoldQuery == <<"m","o","l","d">>
RentQuery == <<"R","e","n","t">>
Queries == { MoldQuery, RentQuery, EmptyStr }

PngUpload == UploadFile(<<"image", "/", "png">>, "ok", <<"PNGDATA">>)

Uploads ==
    { PngUpload,
      UploadFile(<<"application", "/", "pdf">>, "ok", <<"PDFDATA">>),
      UploadFile(<<"image", "/", "png">>, "ok", EmptyStr),
      UploadFile(<<"image", "/", "png">>, "error", EmptyStr),
      UploadFile(None, "ok", <<"PDFDATA">>) }

ImageLists == UNION { [1..n -> Uploads] : n \in 0..MaxAttach }

Causes == { <<"Request timed out.">> }
ClarificationText == <<"Could you tell me which city you live in?">>
ReplyText == <<"Here is what I found.">>

Outcome(ok, dec, clar, content, cause) ==
    [ok |-> ok, decision |-> dec, clarification_message |-> clar,
     content |-> content, cause |-> cause]

\* no call made (yet)
NoCall == Outcome(FALSE, NoDecision, None, None, None)

\* structured_llm.ainvoke: a RouterOutput, or an exception
\* (with an empty or missing clarification_message, or a decision that is
\* missing or none of the literals)
RouterOutcomes ==
    { Outcome(TRUE, d, c, None, None) :
        d \in {"agent1", "agent2", "clarify"},
        c \in {None, EmptyStr, ClarificationText} }
    \cup { Outcome(TRUE, d, None, None, None) : d \in {"agent3", NoDecision} }
    \cup { Outcome(FALSE, NoDecision, None, None, c) : c \in Causes }

\* agentN_llm.ainvoke: an AIMessage, or an exception
AgentOutcomes ==
    { Outcome(TRUE, NoDecision, None, ReplyText, None) }
    \cup { Outcome(FALSE, NoDecision, None, None, c) : c \in Causes }

\* agentN_llm.ainvoke, the AIMessage with empty content included
RouteAgentOutcomes ==
    AgentOutcomes \cup { Outcome(TRUE, NoDecision, None, EmptyStr, None) }

\* The inputs and classifier outcomes of the specification of concurrent
\* sessions (Spec): a query without FAQ keyword with one image, and a query
\* with an FAQ keyword without image; a decision of the three literals, a
\* clarification_message only with the decision it is meant for.
SessionInputs ==
    { [query |-> MoldQuery, images |-> <<PngUpload>>],
      [query |-> RentQuery, images |-> <<>>] }

SessionRouterOutcomes ==
    { o \in RouterOutcomes :
        o.ok => /\ o.decision \in RouterOutputLiterals
                /\ o.clarification_message # EmptyStr
                /\ o.clarification_message # None => o.decision = "clarify" }

\* ---------------------------------------------------------------------
\* State
\* ---------------------------------------------------------------------
VARIABLES
    store,           \* MemorySaver: thread_id -> values of its latest checkpoint
    pc,              \* request -> where its chat_endpoint call stands
    request,         \* request -> session_id, query, images of the call
    state,           \* request -> channel values of its graph invocation
    response,        \* request -> the ChatResponse returned
    clear_response,  \* the last ClearResponse returned
    trace            \* request -> what it loaded, ran and was answered (history)

vars == <<store, pc, request, state, response, clear_response, trace>>

NoRequest == [session_id |-> "-", query |-> EmptyStr, images |-> <<>>]
NoTrace ==
    [loaded |-> <<>>, executed |-> <<>>, router_llm |-> NoCall,
     agent_llm |-> NoCall, concurrent |-> FALSE]
NoClearResponse == [message |-> EmptyStr, session_id |-> "None"]

\* the chat_endpoint call of request r is in flight ("hung": awaiting a
\* completion call that never returns)
Active(r) == pc[r] \in {"router", "issue_detector", "faq_agent", "hung"}

Init ==
    /\ store = [s \in Sessions |-> EmptyState]
    /\ pc = [r \in Requests |-> "idle"]
    /\ request = [r \in Requests |-> NoRequest]
    /\ state = [r \in Requests |-> EmptyState]
    /\ response = [r \in Requests |-> NoResponse]
    /\ clear_response = NoClearResponse
    /\ trace = [r \in Requests |-> NoTrace]

\* ---------------------------------------------------------------------
\* Actions
\* ---------------------------------------------------------------------
\* chat_endpoint whose input leaves the decision and error of the checkpoint
ChatBegin_keeping_error(r, sid, query, images) ==
    /\ pc[r] = "idle"
    /\ \A q \in Requests : q < r => pc[q] # "idle"
    /\ LET initial_state ==
               GraphState(<<HumanMessage(InputMessageContent(query, images), r)>>,
                          NoDecision, None)
           loaded == store[ThreadId(sid)]
           channels == GraphState(add_messages(loaded.messages, initial_state.messages),
                                  loaded.agent_decision, loaded.error)
           others == { q \in Requests : Active(q) /\ request[q].session_id = sid }
       IN
       /\ state' = [state EXCEPT ![r] = channels]
       /\ store' = [store EXCEPT ![ThreadId(sid)] = channels]
       /\ trace' = [q \in Requests |->
                      IF q = r
                      THEN [trace[q] EXCEPT !.loaded = loaded.messages,
                                            !.concurrent = (others # {})]
                      ELSE IF q \in others
                      THEN [trace[q] EXCEPT !.concurrent = TRUE]
                      ELSE trace[q]]
    /\ request' = [request EXCEPT ![r] =
                       [session_id |-> sid, query |-> query, images |-> images]]
    /\ pc' = [pc EXCEPT ![r] = "router"]
    /\ UNCHANGED <<response, clear_response>>

\* chat_endpoint up to the first suspension of app_graph.ainvoke: the content
\* of the message is built, the checkpoint of thread_id = session_id is
\* loaded, initial_state is written to the channels and the input checkpoint
\* is saved; the router then awaits the classifier.
ChatBegin(r, sid, query, images) ==
    /\ pc[r] = "idle"
    /\ \A q \in Requests : q < r => pc[q] # "idle"
    /\ LET initial_state ==
               GraphState(<<HumanMessage(InputMessageContent(query, images), r)>>,
                          NoDecision, None)
           loaded == store[ThreadId(sid)]
           channels == GraphState(add_messages(loaded.messages, initial_state.messages),
                                  initial_state.agent_decision, initial_state.error)
           others == { q \in Requests : Active(q) /\ request[q].session_id = sid }
       IN
       /\ state' = [state EXCEPT ![r] = channels]
       /\ store' = [store EXCEPT ![ThreadId(sid)] = channels]
       /\ trace' = [q \in Requests |->
                      IF q = r
                      THEN [trace[q] EXCEPT !.loaded = loaded.messages,
                                            !.concurrent = (others # {})]
                      ELSE IF q \in others
                      THEN [trace[q] EXCEPT !.concurrent = TRUE]
                      ELSE trace[q]]
    /\ request' = [request EXCEPT ![r] =
                       [session_id |-> sid, query |-> query, images |-> images]]
    /\ pc' = [pc EXCEPT ![r] = "router"]
    /\ UNCHANGED <<response, clear_response>>

\* The classifier call of route_request returns (or raises; no call is made
\* when there is no message): the router's
\* update is applied, the checkpoint saved, and decide_next_node picks the next
\* node; on END ainvoke returns and chat_endpoint builds its response.
RouterReturn(r, llm) ==
    /\ pc[r] = "router"
    /\ LET sid == request[r].session_id
           channels == ApplyUpdate(state[r], route_request(state[r], llm, r))
           next == ConditionalEdge(decide_next_node(channels))
       IN
       /\ state' = [state EXCEPT ![r] = channels]
       /\ store' = [store EXCEPT ![ThreadId(sid)] = channels]
       /\ trace' = [trace EXCEPT ![r].executed = Append(@, "router"),
                                 ![r].router_llm =
                                     IF state[r].messages = <<>> THEN NoCall
                                     ELSE llm]
       /\ pc' = [pc EXCEPT ![r] = IF next = END THEN "done" ELSE next]
       /\ response' = [response EXCEPT ![r] =
                          IF next = END
                          THEN ChatResponse(ResponseText(channels), sid)
                          ELSE @]
    /\ UNCHANGED <<request, clear_response>>

\* The completion call of the handler returns (or raises): its update is
\* applied, the checkpoint saved, the graph ends and chat_endpoint builds its
\* response (the edges from the handlers lead to END).
AgentReturn(r, llm) ==
    /\ pc[r] \in {"issue_detector", "faq_agent"}
    /\ LET sid == request[r].session_id
           u == IF pc[r] = "issue_detector"
                THEN execute_agent1(state[r], llm, r)
                ELSE execute_agent2(state[r], llm, r)
           channels == ApplyUpdate(state[r], u)
       IN
       /\ state' = [state EXCEPT ![r] = channels]
       /\ store' = [store EXCEPT ![ThreadId(sid)] = channels]
       /\ trace' = [trace EXCEPT ![r].executed = Append(@, pc[r]),
                                 ![r].agent_llm = llm]
       /\ response' = [response EXCEPT ![r] =
                          IF AgentEdge(pc[r]) = END
                          THEN ChatResponse(ResponseText(channels), sid)
                          ELSE @]
    /\ pc' = [pc EXCEPT ![r] = IF AgentEdge(pc[r]) = END THEN "done"
                                ELSE AgentEdge(pc[r])]
    /\ UNCHANGED <<request, clear_response>>

\* clear_session, with a session_id or without ("")
ClearSession(sid) ==
    /\ clear_response' = clear_session(store, sid).response
    /\ store' = clear_session(store, sid).memory
    /\ UNCHANGED <<pc, request, state, response, trace>>

\* The task of request r is cancelled while it awaits a completion call:
\* CancelledError is no Exception, so neither the except branches of the nodes
\* nor the ones of chat_endpoint run; nothing is written and nothing is undone.
Cancel(r) ==
    /\ pc[r] \in {"router", "issue_detector", "faq_agent"}
    /\ pc' = [pc EXCEPT ![r] = "cancelled"]
    /\ UNCHANGED <<store, request, state, response, clear_response, trace>>

\* The completion call request r awaits never returns and never raises: the
\* await (no timeout is set on the model or around ainvoke) stays pending.
Hang(r) ==
    /\ pc[r] \in {"router", "issue_detector", "faq_agent"}
    /\ pc' = [pc EXCEPT ![r] = "hung"]
    /\ UNCHANGED <<store, request, state, response, clear_response, trace>>

\* The session ids a request can come with: those already in use and the
\* first one not yet in use (session ids are opaque and interchangeable).
OpenSessions ==
    { SessionSeq[i] : i \in { j \in 1..Len(SessionSeq) :
          \A k \in 1..(j - 1) : \E r \in Requests : request[r].session_id = SessionSeq[k] } }

\* Requests of any number of sessions, concurrent or not, and clear signals
Next ==
    \/ \E r \in Requests, sid \in OpenSessions, in \in SessionInputs :
          ChatBegin(r, sid, in.query, in.images)
    \/ \E r \in Requests, llm \in SessionRouterOutcomes : RouterReturn(r, llm)
    \/ \E r \in Requests, llm \in AgentOutcomes : AgentReturn(r, llm)
    \/ \E sid \in Sessions \cup {""} : ClearSession(sid)

Spec == Init /\ [][Next]_vars

\* One request on a fresh session, with every query, every list of uploads and
\* every outcome of the classifier and of the handler
NextRoute ==
    \/ \E query \in Queries, images \in ImageLists :
          ChatBegin(1, "s1", query, images)
    \/ \E llm \in RouterOutcomes : RouterReturn(1, llm)
    \/ \E llm \in RouteAgentOutcomes : AgentReturn(1, llm)

SpecRoute == Init /\ [][NextRoute]_vars

\* Requests whose task is cancelled or whose completion call never returns.
\* A call that is not stuck returns, and the event loop then runs the rest of
\* the request: weak fairness of the two return steps.
NextAbandon ==
    \/ \E r \in Requests, sid \in OpenSessions, in \in SessionInputs :
          ChatBegin(r, sid, in.query, in.images)
    \/ \E r \in Requests, llm \in SessionRouterOutcomes : RouterReturn(r, llm)
    \/ \E r \in Requests, llm \in AgentOutcomes : AgentReturn(r, llm)
    \/ \E r \in Requests : Cancel(r)
    \/ \E r \in Requests : Hang(r)

SpecAbandon ==
    /\ Init /\ [][NextAbandon]_vars
    /\ \A r \in Requests :
          /\ WF_vars(\E llm \in SessionRouterOutcomes : RouterReturn(r, llm))
          /\ WF_vars(\E llm \in AgentOutcomes : AgentReturn(r, llm))

\* Requests every completion call of which returns or raises: the event loop
\* then runs the rest of the request (weak fairness of the two return steps).
NextFair ==
    \/ \E r \in Requests, sid \in OpenSessions, in \in SessionInputs :
          ChatBegin(r, sid, in.query, in.images)
    \/ \E r \in Requests, llm \in SessionRouterOutcomes : RouterReturn(r, llm)
    \/ \E r \in Requests, llm \in AgentOutcomes : AgentReturn(r, llm)

SpecFair ==
    /\ Init /\ [][NextFair]_vars
    /\ \A r \in Requests :
          /\ WF_vars(\E llm \in SessionRouterOutcomes : RouterReturn(r, llm))
          /\ WF_vars(\E llm \in AgentOutcomes : AgentReturn(r, llm))

\* The graph nodes on any state they can be given: the router is entered
\* with a conversation that is empty or holds one user Turn of any content.
InitNode ==
    /\ store = [s \in Sessions |-> EmptyState]
    /\ pc = [r \in Requests |-> IF r = 1 THEN "router" ELSE "idle"]
    /\ \E query \in Queries, images \in ImageLists, empty \in BOOLEAN :
          /\ request = [r \in Requests |->
                          IF r = 1
                          THEN [session_id |-> "s1", query |-> query, images |-> images]
                          ELSE NoRequest]
          /\ state = [r \in Requests |->
                        IF r = 1 /\ ~empty
                        THEN GraphState(<<HumanMessage(InputMessageContent(query, images), 1)>>,
                                        NoDecision, None)
                        ELSE EmptyState]
    /\ response = [r \in Requests |-> NoResponse]
    /\ clear_response = NoClearResponse
    /\ trace = [r \in Requests |-> NoTrace]

NextNode ==
    \/ \E llm \in RouterOutcomes : RouterReturn(1, llm)
    \/ \E llm \in RouteAgentOutcomes : AgentReturn(1, llm)

SpecNode == InitNode /\ [][NextNode]_vars

\* The conditional edge after the router on the state it finds: the next node
\* is entered, or the graph ends and chat_endpoint builds its response.
BranchPoint(r) ==
    /\ pc[r] = "edge"
    /\ LET next == ConditionalEdge(decide_next_node(state[r])) IN
       /\ pc' = [pc EXCEPT ![r] = IF next = END THEN "done" ELSE next]
       /\ response' = [response EXCEPT ![r] =
                          IF next = END
                          THEN ChatResponse(ResponseText(state[r]),
                                            request[r].session_id)
                          ELSE @]
    /\ UNCHANGED <<store, request, state, clear_response, trace>>

\* The decisions a state can hold at the conditional edge: the three of
\* RouterOutput, the None of initial_state, and another string
EdgeDecisions == RouterOutputLiterals \cup {NoDecision, "agent3"}

\* The branch point on any state: the conversation of the session (empty, or
\* one earlier exchange) followed by the user Turn of the request, with any
\* decision; when the decision is clarify the router's Turn follows.
InitEdge ==
    /\ pc = [r \in Requests |-> IF r = 1 THEN "edge" ELSE "idle"]
    /\ response = [r \in Requests |-> NoResponse]
    /\ clear_response = NoClearResponse
    /\ \E query \in Queries, images \in ImageLists, dec \in EdgeDecisions,
          earlier \in BOOLEAN :
          LET loaded == IF earlier
                        THEN <<HumanMessage(InputMessageContent(RentQuery, <<>>), 0),
                               AIMessage(ReplyText, 0)>>
                        ELSE <<>>
              turn == HumanMessage(InputMessageContent(query, images), 1)
              channels == GraphState(
                  loaded \o <<turn>> \o
                      (IF dec = "clarify" THEN <<AIMessage(HelpFurtherText, 1)>>
                       ELSE <<>>),
                  dec, None)
          IN
          /\ request = [r \in Requests |->
                          IF r = 1
                          THEN [session_id |-> "s1", query |-> query, images |-> images]
                          ELSE NoRequest]
          /\ state = [r \in Requests |-> IF r = 1 THEN channels ELSE EmptyState]
          /\ store = [s \in Sessions |-> IF s = "s1" THEN channels ELSE EmptyState]
          /\ trace = [r \in Requests |->
                        IF r = 1
                        THEN [NoTrace EXCEPT !.loaded = loaded,
                                             !.executed = <<"router">>]
                        ELSE NoTrace]

NextEdge ==
    \/ BranchPoint(1)
    \/ \E llm \in AgentOutcomes : AgentReturn(1, llm)

SpecEdge == InitEdge /\ [][NextEdge]_vars

\* ---------------------------------------------------------------------
\* Properties
\* ---------------------------------------------------------------------
IsHandler(n) == n \in {"issue_detector", "faq_agent"}
HandlersRun(r) == SelectSeq(trace[r].executed, IsHandler)
RouterRan(r) == pc[r] \in {"issue_detector", "faq_agent", "done"}
Done(r) == pc[r] = "done"
\* the user's Turn of request r in the conversation of its invocation
UserTurn(r) == state[r].messages[Len(trace[r].loaded) + 1]
LastTurn(msgs) == msgs[Len(msgs)]
HasImagePart(m) == \E i \in 1..Len(m.list) : m.list[i].type = "image_url"
NoFaqKeyword(text) ==
    \A k \in 1..Len(faq_keywords) : ~Contains(faq_keywords[k], Lower(text))

\* C1: for every request at most one handler runs and it runs at most once; a
\* handler that ran is the one the router's final decision names; a completed
\* request ran the router first and then exactly what its decision names:
\* the issue detector for agent1, the FAQ agent for agent2, no handler for
\* clarify.
C1_ExactlyOneBranch ==
    \A r \in Requests :
        /\ Len(HandlersRun(r)) <= 1
        /\ \A i \in 1..Len(HandlersRun(r)) :
              /\ HandlersRun(r)[i] = "issue_detector" => state[r].agent_decision = "agent1"
              /\ HandlersRun(r)[i] = "faq_agent" => state[r].agent_decision = "agent2"
        /\ Done(r) =>
              /\ state[r].agent_decision \in {"agent1", "agent2", "clarify"}
              /\ state[r].agent_decision = "agent1" =>
                    trace[r].executed = <<"router", "issue_detector">>
              /\ state[r].agent_decision = "agent2" =>
                    trace[r].executed = <<"router", "faq_agent">>
              /\ state[r].agent_decision = "clarify" =>
                    trace[r].executed = <<"router">>

C1_Witness ==
    \E r, q \in Requests :
        /\ Done(r) /\ trace[r].executed = <<"router", "faq_agent">>
        /\ Done(q) /\ trace[q].executed = <<"router">>

\* C2: once the router has run for a request whose user Turn (the last Turn
\* the router saw) has no image part, the decision is not agent1, whatever
\* the classifier answered; the issue detector only runs for a request whose
\* user Turn has an image part.
C2_NoImageNeverVisual ==
    \A r \in Requests :
        /\ (RouterRan(r) /\ ~HasImagePart(UserTurn(r))) =>
              state[r].agent_decision # "agent1"
        /\ (pc[r] = "issue_detector" \/ "issue_detector" \in
                { trace[r].executed[i] : i \in 1..Len(trace[r].executed) }) =>
              /\ HasImagePart(UserTurn(r))
              /\ pc[r] = "issue_detector" => HasImagePart(LastTurn(state[r].messages))

C2_Witness ==
    \E r \in Requests :
        /\ Done(r) /\ ~HasImagePart(UserTurn(r))
        /\ trace[r].router_llm.ok /\ trace[r].router_llm.decision = "agent1"
        /\ state[r].agent_decision = "clarify"

\* C3: once the router has run for a request whose user Turn has an image
\* part and whose query contains no FAQ keyword (case-insensitively), and the
\* classifier answered agent2, the decision is agent1 and the handler that
\* runs is the issue detector.
C3_ImageOverridesFaq ==
    \A r \in Requests :
        (/\ RouterRan(r)
         /\ HasImagePart(UserTurn(r))
         /\ NoFaqKeyword(request[r].query)
         /\ trace[r].router_llm.ok
         /\ trace[r].router_llm.decision = "agent2") =>
            /\ state[r].agent_decision = "agent1"
            /\ pc[r] \in {"issue_detector", "done"}
            /\ Done(r) => trace[r].executed = <<"router", "issue_detector">>

C3_Witness ==
    \E r \in Requests :
        /\ Done(r) /\ HasImagePart(UserTurn(r)) /\ NoFaqKeyword(request[r].query)
        /\ trace[r].router_llm.ok /\ trace[r].router_llm.decision = "agent2"
        /\ trace[r].executed = <<"router", "issue_detector">>

\* a human Turn at position i of msgs is directly followed by an assistant Turn
Answered(msgs, i) == i < Len(msgs) /\ msgs[i + 1].type = "ai"
IsPrefix(a, b) == Len(a) <= Len(b) /\ SubSeq(b, 1, Len(a)) = a
SessionOf(r) == request[r].session_id

\* C4: requests of one session are processed one after the other: the
\* conversation a request loads, and the conversation its router or handler
\* works on, holds no user Turn of another request that has no assistant reply
\* directly after it, and no stored conversation holds two user Turns in a row.
C4_SessionRequestsSerialized ==
    /\ \A r \in Requests :
          pc[r] # "idle" =>
             \A i \in 1..Len(state[r].messages) :
                (state[r].messages[i].type = "human" /\ state[r].messages[i].id # r)
                   => Answered(state[r].messages, i)
    /\ \A s \in Sessions :
          \A i \in 1..(Len(store[s].messages) - 1) :
             ~(store[s].messages[i].type = "human"
               /\ store[s].messages[i + 1].type = "human")

\* the classifier call of request r raised, or its answer is no RouterOutput
RouterFailed(r) ==
    \/ ~trace[r].router_llm.ok
    \/ trace[r].router_llm.decision \notin {"agent1", "agent2", "clarify"}

\* C5: when the classifier call of the router failed, the request is
\* complete with decision clarify, the error set to the routing failure, the
\* conversation it loaded followed by its user Turn and the fixed apology of
\* the router, no handler run, and a ChatResponse (status 200) returned.
C5_RouterFailureFallsBack ==
    \A r \in Requests :
        (RouterRan(r) /\ RouterFailed(r)) =>
            /\ Done(r)
            /\ state[r].agent_decision = "clarify"
            /\ Truthy(state[r].error)
            /\ state[r].error = <<"Routing failed: ">> \o
                  (IF trace[r].router_llm.ok THEN ValidationErrorText
                   ELSE trace[r].router_llm.cause)
            /\ Len(state[r].messages) = Len(trace[r].loaded) + 2
            /\ LastTurn(state[r].messages) = AIMessage(RoutingApologyText, r)
            /\ trace[r].executed = <<"router">>
            /\ response[r].status = "200"

C5_Witness ==
    \E r \in Requests :
        /\ Done(r) /\ ~trace[r].router_llm.ok
        /\ trace[r].router_llm.cause \in Causes
        /\ HasImagePart(UserTurn(r))

\* the exception text of the failed call of request r
FailureCause(r) ==
    IF ~trace[r].router_llm.ok THEN trace[r].router_llm.cause
    ELSE trace[r].agent_llm.cause

\* C6: when a completed request has its error set, the response text is the
\* text of the assistant Turn (the fixed apology) and contains neither the
\* error nor the exception text recorded in it.
C6_ErrorCauseNotShown ==
    \A r \in Requests :
        (Done(r) /\ Truthy(state[r].error)) =>
            /\ response[r].response = LastTurn(state[r].messages).str
            /\ ~Contains(FailureCause(r), response[r].response)
            /\ ~Contains(state[r].error, response[r].response)

\* C7: when a request that ran alone on its session completes, the stored
\* conversation of the session is the conversation the request loaded (N
\* Turns) followed by the request's user Turn and one assistant Turn of the
\* request: N + 2 Turns, on every branch.
C7_GrowsByTwo ==
    [][\A r \in Requests :
          (pc[r] # "done" /\ pc'[r] = "done" /\ ~trace'[r].concurrent) =>
             LET N == Len(trace'[r].loaded)
                 conv == store'[SessionOf(r)].messages
             IN /\ Len(conv) = N + 2
                /\ SubSeq(conv, 1, N) = trace'[r].loaded
                /\ conv[N + 1].type = "human" /\ conv[N + 1].id = r
                /\ conv[N + 1].list[1].text = request[r].query
                /\ conv[N + 2].type = "ai" /\ conv[N + 2].id = r
                /\ conv = state'[r].messages]_vars

C7_Witness ==
    \E r, q \in Requests :
        /\ Done(r) /\ ~trace[r].concurrent /\ Len(trace[r].loaded) = 2
        /\ Len(store[SessionOf(r)].messages) = 4
        /\ trace[r].executed = <<"router", "faq_agent">> /\ ~trace[r].agent_llm.ok
        /\ Done(q) /\ ~trace[q].concurrent /\ trace[q].loaded = <<>>
        /\ trace[q].router_llm.ok /\ trace[q].router_llm.decision = "clarify"
        /\ trace[q].router_llm.clarification_message = None

\* C8: every step leaves the stored conversation of every session an
\* extension of what it was.
C8_AppendOnly ==
    [][\A s \in Sessions : IsPrefix(store[s].messages, store'[s].messages)]_vars

\* the Turns of a conversation without their ids
Strip(msgs) ==
    [i \in 1..Len(msgs) |->
        [type |-> msgs[i].type, isstr |-> msgs[i].isstr,
         str |-> msgs[i].str, list |-> msgs[i].list]]

\* what request r was given: its query, uploads, and the outcomes of its calls
InputsOf(r) ==
    <<request[r].query, request[r].images, trace[r].router_llm, trace[r].agent_llm>>

\* the requests of session s from request r on, in the order they were made
RECURSIVE RequestLog(_, _)
RequestLog(s, r) ==
    IF r > MaxReq THEN <<>>
    ELSE (IF SessionOf(r) = s THEN <<InputsOf(r)>> ELSE <<>>) \o RequestLog(s, r + 1)

\* every request of session s is complete and ran alone on it
Serial(s) ==
    \A r \in Requests : SessionOf(r) = s => (Done(r) /\ ~trace[r].concurrent)

C9_Replay ==
    \A sa, sb \in Sessions :
        (/\ sa # sb /\ Serial(sa) /\ Serial(sb)
         /\ RequestLog(sa, 1) = RequestLog(sb, 1)) =>
            Strip(store[sa].messages) = Strip(store[sb].messages)

\* C9: a step changes the stored conversation, decision and error of a
\* session only if it is a step of a request of that session; and two
\* sessions that served the same sequence of requests, one at a time, with the
\* same outcomes of the classifier and handler calls, hold the same sequence
\* of Turns.
C9_SessionsIndependent ==
    /\ []C9_Replay
    /\ [][\A s \in Sessions :
             store'[s] # store[s] =>
                \E r \in Requests : pc'[r] # pc[r] /\ request'[r].session_id = s]_vars

C9_Witness ==
    \E r, q \in Requests :
        /\ Done(r) /\ Done(q)
        /\ SessionOf(r) # SessionOf(q)
        /\ InputsOf(r) = InputsOf(q)
        /\ trace[r].executed = <<"router", "issue_detector">>
        /\ Len(store[SessionOf(r)].messages) = 2
        /\ Len(store[SessionOf(q)].messages) = 2

\* C10: a clear signal, with or without session_id, leaves the stored state of
\* every session and the state of every running request as it was; and a
\* request that runs alone on its session loads a conversation that holds the
\* user Turn and the assistant Turn of every earlier request of the session
\* that ran alone, whatever clear signals were given.
C10_ClearChangesNothing ==
    /\ [](\A r, q \in Requests :
            (/\ q < r /\ pc[r] # "idle" /\ SessionOf(q) = SessionOf(r)
             /\ ~trace[r].concurrent /\ ~trace[q].concurrent) =>
                \E i \in 1..(Len(trace[r].loaded) - 1) :
                    /\ trace[r].loaded[i].type = "human" /\ trace[r].loaded[i].id = q
                    /\ trace[r].loaded[i + 1].type = "ai" /\ trace[r].loaded[i + 1].id = q)
    /\ [][(clear_response' # clear_response \/ pc' = pc) =>
             (store' = store /\ state' = state)]_vars

C10_Witness ==
    \E r \in Requests :
        /\ clear_response.session_id = SessionOf(r)
        /\ Len(trace[r].loaded) = 2
        /\ Done(r) /\ ~trace[r].concurrent
        /\ Len(store[SessionOf(r)].messages) = 4

\* the handler call of request r raised
HandlerFailed(r) == HandlersRun(r) # <<>> /\ ~trace[r].agent_llm.ok

\* C11: when the completion call of a handler failed, the request is complete
\* after that one call (the handler ran once), the conversation is the one the
\* handler was given followed by exactly one assistant Turn with the fixed
\* apology of that handler, the error records the failure with its cause, and
\* a ChatResponse (status 200) is returned.
C11_HandlerFailureFallsBack ==
    \A r \in Requests :
        HandlerFailed(r) =>
            /\ Done(r)
            /\ Len(trace[r].executed) = 2 /\ Len(HandlersRun(r)) = 1
            /\ Len(state[r].messages) = Len(trace[r].loaded) + 2
            /\ LastTurn(state[r].messages) =
                  AIMessage(IF HandlersRun(r)[1] = "issue_detector"
                            THEN Agent1ApologyText ELSE Agent2ApologyText, r)
            /\ state[r].error =
                  (IF HandlersRun(r)[1] = "issue_detector"
                   THEN <<"Agent 1 failed: ">> ELSE <<"Agent 2 failed: ">>)
                  \o trace[r].agent_llm.cause
            /\ response[r].status = "200"

C11_Witness ==
    \E r \in Requests :
        /\ HandlerFailed(r) /\ Done(r)
        /\ HandlersRun(r) = <<"issue_detector">>
        /\ trace[r].agent_llm.cause \in Causes

\* an upload with an image MIME type whose read succeeds with a payload
IsValidAttachment(a) ==
    /\ a.content_type # None /\ a.content_type[1] = "image"
    /\ a.read = "ok" /\ a.bytes # <<>>
ValidIndexes(images) == { i \in 1..Len(images) : IsValidAttachment(images[i]) }
ImagePartsOf(m) == SelectSeq(m.list, LAMBDA part : part.type = "image_url")

\* C12: every request, whatever its uploads, reaches the router with a user
\* Turn made of the query as text part followed by one image part for exactly
\* each valid upload, in their order and carrying its MIME type; invalid
\* uploads leave no part; the Turn has images iff some upload is valid.
C12_InvalidUploadsSkipped ==
    \A r \in Requests :
        pc[r] # "idle" =>
            LET m == UserTurn(r)
                images == request[r].images
                parts == ImagePartsOf(m)
            IN /\ m.type = "human" /\ m.list[1] = TextPart(request[r].query)
               /\ Len(m.list) = 1 + Cardinality(ValidIndexes(images))
               /\ Len(parts) = Cardinality(ValidIndexes(images))
               /\ \A k \in 1..Len(parts) :
                     \E i \in ValidIndexes(images) :
                        /\ Cardinality({ j \in ValidIndexes(images) : j <= i }) = k
                        /\ SubSeq(parts[k].image_url, 2, 1 + Len(images[i].content_type))
                              = images[i].content_type
               /\ has_images_in_message(m) <=> ValidIndexes(images) # {}

C12_Witness ==
    \E r \in Requests :
        /\ RouterRan(r) /\ Len(request[r].images) = 2
        /\ ~IsValidAttachment(request[r].images[1])
        /\ IsValidAttachment(request[r].images[2])
        /\ Len(UserTurn(r).list) = 2

\* the assistant Turns request r appended to the conversation of its invocation
OwnAssistantTurns(r) ==
    SelectSeq(state[r].messages, LAMBDA m : m.type = "ai" /\ m.id = r)

\* C13: a completed request without error returns the text of the last Turn
\* of its conversation, which is the only assistant Turn the request appended,
\* together with the session_id it was called with.
C13_ReturnsOwnAssistantText ==
    \A r \in Requests :
        (Done(r) /\ ~Truthy(state[r].error)) =>
            /\ Len(OwnAssistantTurns(r)) = 1
            /\ LastTurn(state[r].messages) = OwnAssistantTurns(r)[1]
            /\ response[r].response = LastTurn(state[r].messages).str
            /\ response[r].session_id = request[r].session_id
            /\ response[r].status = "200"

C13_Witness ==
    \E r \in Requests :
        /\ Done(r) /\ ~Truthy(state[r].error)
        /\ Len(trace[r].loaded) = 2
        /\ response[r].response = ReplyText
        /\ response[r].session_id = "s1"

\* C14: every completed request returns a ChatResponse whose response text
\* is not empty.
C14_ResponseNeverEmpty ==
    \A r \in Requests :
        Done(r) => /\ response[r].status = "200"
                   /\ response[r].response # EmptyStr

\* C15: once the router has run, whatever conversation it was given (empty
\* included) and whatever the classifier call did (answer of any shape, or
\* exception), the decision is one of agent1, agent2, clarify.
C15_DecisionIsOneOfThree ==
    \A r \in Requests :
        RouterRan(r) => state[r].agent_decision \in {"agent1", "agent2", "clarify"}

C15_Witness ==
    \E r \in Requests :
        /\ Done(r)
        /\ trace[r].router_llm.ok /\ trace[r].router_llm.decision = "agent3"
        /\ state[r].agent_decision = "clarify"

\* C16: when a request that ran alone on its session was cancelled, and no
\* later request of the session has begun, the stored conversation of the
\* session is the one the request loaded: in particular it does not hold the
\* request's user Turn.
C16_CancelledLeavesNothing ==
    \A r \in Requests :
        (/\ pc[r] = "cancelled" /\ ~trace[r].concurrent
         /\ \A q \in Requests : (q > r /\ pc[q] # "idle") => SessionOf(q) # SessionOf(r))
        => store[SessionOf(r)].messages = trace[r].loaded

\* C17: every request that has begun eventually ends: it completes (a call
\* that never returns being treated as failed) or was cancelled.
C17_NoRequestPendingForever ==
    \A r \in Requests : (pc[r] # "idle") ~> (pc[r] \in {"done", "cancelled"})

\* C18: the step of the router adds one assistant Turn with a non-empty text
\* to the conversation and ends the request when its final decision is
\* clarify, and otherwise (decision agent1 or agent2) leaves the conversation
\* as it is; the step of a handler adds exactly one assistant Turn, which is
\* then the only assistant Turn of the request.
C18_RouterAppendsIffClarify ==
    [][\A r \in Requests :
         /\ (pc[r] = "router" /\ pc'[r] \in {"issue_detector", "faq_agent", "done"}) =>
              IF state'[r].agent_decision = "clarify"
              THEN /\ Len(state'[r].messages) = Len(state[r].messages) + 1
                   /\ IsPrefix(state[r].messages, state'[r].messages)
                   /\ LastTurn(state'[r].messages).type = "ai"
                   /\ LastTurn(state'[r].messages).isstr
                   /\ Truthy(LastTurn(state'[r].messages).str)
                   /\ pc'[r] = "done"
              ELSE /\ state'[r].messages = state[r].messages
                   /\ state'[r].agent_decision \in {"agent1", "agent2"}
                   /\ pc'[r] # "done"
         /\ (pc[r] \in {"issue_detector", "faq_agent"} /\ pc'[r] = "done") =>
              /\ Len(state'[r].messages) = Len(state[r].messages) + 1
              /\ IsPrefix(state[r].messages, state'[r].messages)
              /\ LastTurn(state'[r].messages).type = "ai"
              /\ Len(SelectSeq(state'[r].messages,
                               LAMBDA m : m.type = "ai" /\ m.id = r)) = 1
      ]_vars

C18_Witness ==
    \E r \in Requests :
        /\ Done(r) /\ trace[r].router_llm.ok
        /\ trace[r].router_llm.decision = "agent2"
        /\ Truthy(trace[r].router_llm.clarification_message)
        /\ trace[r].executed = <<"router", "faq_agent">>
        /\ Len(OwnAssistantTurns(r)) = 1

\* the decision the two overrides make of the classifier's decision
OverriddenDecision(raw, images, text) ==
    IF images /\ raw = "agent2" /\ NoFaqKeyword(text) THEN "agent1"
    ELSE IF ~images /\ raw = "agent1" THEN "clarify"
    ELSE raw

\* C19: once the router has run on a valid classification, its decision is
\* the classifier's decision, except that agent2 with an image part and no FAQ
\* keyword in the query becomes agent1 and agent1 without image part becomes
\* clarify; agent2 with image part and FAQ keyword stays agent2, clarify stays
\* clarify, agent1 with image part stays agent1.
C19_DecisionIsRawUnlessOverridden ==
    \A r \in Requests :
        (RouterRan(r) /\ ~RouterFailed(r)) =>
            LET raw == trace[r].router_llm.decision
                images == HasImagePart(UserTurn(r))
            IN
            /\ state[r].agent_decision =
                  OverriddenDecision(raw, images, request[r].query)
            /\ (raw = "agent2" /\ images /\ ~NoFaqKeyword(request[r].query)) =>
                  state[r].agent_decision = "agent2"
            /\ raw = "clarify" => state[r].agent_decision = "clarify"
            /\ (raw = "agent1" /\ images) => state[r].agent_decision = "agent1"

C19_Witness ==
    \E r \in Requests :
        /\ Done(r) /\ ~RouterFailed(r)
        /\ trace[r].router_llm.decision = "agent2"
        /\ HasImagePart(UserTurn(r)) /\ ~NoFaqKeyword(request[r].query)
        /\ trace[r].executed = <<"router", "faq_agent">>

\* C20: a request completed with decision clarify on a valid classification
\* ends with exactly one assistant Turn of its own, the last of the
\* conversation, whose text is the classifier's clarification when that is
\* non-empty, else the upload-an-image text when the classifier said agent1,
\* else the how-can-I-help text.
C20_ClarifyTextOrDefault ==
    \A r \in Requests :
        (Done(r) /\ ~RouterFailed(r) /\ state[r].agent_decision = "clarify") =>
            LET given == trace[r].router_llm.clarification_message
                last == LastTurn(state[r].messages)
            IN
            /\ OwnAssistantTurns(r) = <<last>>
            /\ last.type = "ai" /\ last.isstr
            /\ last.str = IF given # None /\ given # EmptyStr THEN given
                          ELSE IF trace[r].router_llm.decision = "agent1"
                          THEN UploadImageText
                          ELSE HelpFurtherText

C20_Witness ==
    \E r \in Requests :
        /\ Done(r) /\ ~RouterFailed(r) /\ state[r].agent_decision = "clarify"
        /\ trace[r].router_llm.decision = "agent1"
        /\ trace[r].router_llm.clarification_message = EmptyStr
        /\ LastTurn(state[r].messages).str = UploadImageText

\* C21: a request runs the router first and once, then at most one handler,
\* and no node twice: what it has executed is nothing while it awaits the
\* router, the router alone while it awaits a handler, and the router alone or
\* the router and one handler when it is complete; no step leads back to the
\* router or from one handler to another; and, every completion call
\* returning or failing, every request is eventually complete.
C21_NoCycleAndTerminates ==
    /\ [](\A r \in Requests :
            /\ pc[r] \in {"idle", "router"} => trace[r].executed = <<>>
            /\ IsHandler(pc[r]) => trace[r].executed = <<"router">>
            /\ Done(r) => \/ trace[r].executed = <<"router">>
                          \/ \E h \in {"issue_detector", "faq_agent"} :
                                trace[r].executed = <<"router", h>>)
    /\ [][\A r \in Requests :
            /\ pc[r] # "router" /\ pc[r] # "idle" => pc'[r] # "router"
            /\ IsHandler(pc[r]) => pc'[r] \in {pc[r], "done"}
            /\ Done(r) => pc'[r] = "done"]_vars
    /\ \A r \in Requests :
          (pc[r] \in {"router", "issue_detector", "faq_agent"}) ~> Done(r)

C21_Witness ==
    \E r, q \in Requests :
        /\ r # q /\ Done(r) /\ Done(q)
        /\ trace[r].executed = <<"router">>
        /\ trace[q].executed = <<"router", "issue_detector">>

\* C22: the step of the router on a conversation without Turns, whatever the
\* classifier would have answered, records no classifier call, sets the
\* decision to clarify and the error, leaves one assistant Turn with the fixed
\* text as the conversation, and ends the request without a handler.
C22_EmptyConversation ==
    [][\A r \in Requests :
         (pc[r] = "router" /\ state[r].messages = <<>> /\ pc'[r] # "router") =>
            /\ trace'[r].router_llm = NoCall
            /\ state'[r].agent_decision = "clarify"
            /\ state'[r].messages = <<AIMessage(NoUserMessageText, r)>>
            /\ state'[r].error = NoMessagesError
            /\ state'[r].error # None /\ state'[r].error # EmptyStr
            /\ pc'[r] = "done"
            /\ trace'[r].executed = <<"router">>
      ]_vars

C22_Witness ==
    \E r \in Requests :
        /\ Done(r) /\ state[r].messages = <<AIMessage(NoUserMessageText, r)>>
        /\ state[r].error = NoMessagesError

\* C23: a request that is complete with a decision that is none of agent1,
\* agent2, clarify ran no handler, has no assistant Turn of its own, its
\* conversation still ends with its user Turn, and its response has status
\* 200 and the fixed unable-to-respond text, which is not the user's query.
C23_InvalidDecisionEnds ==
    \A r \in Requests :
        /\ (pc[r] # "idle" /\ pc[r] # "edge"
            /\ state[r].agent_decision \notin {"agent1", "agent2", "clarify"}) =>
              /\ Done(r)
              /\ trace[r].executed = <<"router">>
              /\ state[r].messages = trace[r].loaded \o <<UserTurn(r)>>
              /\ UserTurn(r).type = "human"
              /\ OwnAssistantTurns(r) = <<>>
              /\ response[r].status = "200"
              /\ response[r].response = UnableToRespondText
              /\ response[r].response # request[r].query
        /\ (pc[r] = "edge" /\ state[r].agent_decision \notin {"agent1", "agent2", "clarify"}) =>
              ConditionalEdge(decide_next_node(state[r])) = END

C23_Witness ==
    \E r \in Requests :
        /\ Done(r) /\ state[r].agent_decision = NoDecision
        /\ Len(trace[r].loaded) = 2
        /\ response[r].response = UnableToRespondText
        /\ HasImagePart(UserTurn(r))

\* C24: a request enters the router with no decision and no error, whatever
\* the checkpoint of its session holds; when it is complete its error is set
\* exactly when its own router or its own handler failed, and when neither
\* failed its response is the text of the last Turn of its conversation, not
\* an error message.
C24_ErrorIsOwn ==
    \A r \in Requests :
        /\ pc[r] = "router" =>
              state[r].error = None /\ state[r].agent_decision = NoDecision
        /\ Done(r) =>
              ((state[r].error # None /\ state[r].error # EmptyStr)
                  <=> (RouterFailed(r) \/ HandlerFailed(r)))
        /\ (Done(r) /\ ~RouterFailed(r) /\ ~HandlerFailed(r)) =>
              /\ state[r].error = None
              /\ response[r].response = LastTurn(state[r].messages).str

C24_Witness ==
    \E r, q \in Requests :
        /\ r < q /\ SessionOf(r) = SessionOf(q) /\ Done(r) /\ Done(q)
        /\ ~trace[q].concurrent
        /\ HandlerFailed(r) /\ state[r].error # None
        /\ ~RouterFailed(q) /\ ~HandlerFailed(q) /\ state[q].error = None
        /\ trace[q].loaded = state[r].messages

\* the Turns of msgs are user, assistant, user, assistant, ..., the last
\* one an assistant Turn
Alternates(msgs) ==
    /\ Len(msgs) % 2 = 0
    /\ \A i \in 1..Len(msgs) :
          msgs[i].type = IF i % 2 = 1 THEN "human" ELSE "ai"

\* C25: the stored conversation of a session all of whose requests are
\* complete and ran one at a time alternates user and assistant Turns, from a
\* user Turn to an assistant Turn, two Turns for each request; and a request
\* that awaits a handler has its own user Turn as the last Turn of the
\* conversation the handler is given.
C25_TurnsAlternate ==
    /\ \A s \in Sessions :
          Serial(s) =>
              /\ Alternates(store[s].messages)
              /\ Len(store[s].messages) =
                    2 * Cardinality({ r \in Requests : SessionOf(r) = s })
    /\ \A r \in Requests :
          IsHandler(pc[r]) =>
              /\ state[r].messages # <<>>
              /\ LastTurn(state[r].messages) = UserTurn(r)
              /\ LastTurn(state[r].messages).type = "human"
              /\ LastTurn(state[r].messages).id = r
              /\ get_text_from_message(LastTurn(state[r].messages)) = request[r].query

C25_Witness ==
    \E r, q \in Requests :
        /\ r < q /\ SessionOf(r) = "s1" /\ SessionOf(q) = "s1"
        /\ Serial("s1")
        /\ Len(store["s1"].messages) = 4
        /\ trace[r].executed = <<"router", "faq_agent">>
        /\ trace[q].executed = <<"router">>

====
